---- MODULE Spec2Model ----
(***************************************************************************)
(* A state-machine model of use_blended_model.py: the command line entry   *)
(* point main and the functions it drives (blend_model, project_image,     *)
(* get_target_transformed_img, generate_image, make_video).                *)
(*                                                                         *)
(* Strings that the program takes apart or compares (paths, file names)    *)
(* are sequences of one-character strings.  A tensor's leading axis is a   *)
(* sequence, so t.unsqueeze(0) is <<t>> and t[-1] is t[Len(t)].  An image  *)
(* array is a record of its height and its sequence of pixel columns, so   *)
(* np.concatenate(..., axis=1) is the concatenation of the columns.        *)
(***************************************************************************)
EXTENDS Integers, Sequences, FiniteSets, TLC

VARIABLES
    cli,          \* the command line arguments every invocation is given
    g1res,        \* environment: img_resolution of the network behind network_pkl1
    trajLen,      \* environment: number of latent vectors projector.project returns
    invocations,  \* how many times the program is invoked (one after the other)
    runs,         \* per invocation: the locals of main and what it has done so far
    blend,        \* two calls of blend_model or blend_model_simple on their own
    crop,         \* a call of get_target_transformed_img on its own
    render        \* one network output value going through the render mapping

vars == <<cli, g1res, trajLen, invocations, runs, blend, crop, render>>

(***************************************************************************)
(* Bounds of the model.                                                    *)
(***************************************************************************)
MaxTraj == 3     \* longest latent trajectory
MaxRes == 2      \* largest network resolution in a run of main
MaxDim == 6      \* largest photo width and height given to the preprocessor
MaxCropRes == 3  \* largest target resolution given to the preprocessor
MaxMag == 20     \* largest magnitude of a network output, in units of 1/XDen
XDen == 4        \* network outputs are the rationals k/XDen

Runs == {1, 2}

None == "None"

Min(a, b) == IF a <= b THEN a ELSE b

Max(a, b) == IF a >= b THEN a ELSE b

Range(s) == {s[i] : i \in 1..Len(s)}

IsPrefix(s, t) == Len(s) <= Len(t) /\ \A i \in 1..Len(s) : s[i] = t[i]

(***************************************************************************)
(* get_target_transformed_img: the crop box, the crop and the resize.      *)
(***************************************************************************)
CropBoxShifted(w, h) ==
    LET s == Min(w, h)
    IN  [left |-> (w - s) \div 2, upper |-> (h - s) \div 2,
         right |-> (w + s + 1) \div 2, lower |-> (h + s + 1) \div 2]

\* the box passed to target_pil.crop: Python's // on non-negative operands
CropBox(w, h) ==
    LET s == Min(w, h)
    IN  [left |-> (w - s) \div 2, upper |-> (h - s) \div 2,
         right |-> (w + s) \div 2, lower |-> (h + s) \div 2]

\* PIL's Image.crop: the size of the region (left, upper, right, lower)
CropSize(box) == [w |-> box.right - box.left, h |-> box.lower - box.upper]

\* PIL's Image.resize((res, res)) followed by np.array: the array's height and width
ResizedShape(size, res) == [h |-> res, w |-> res]

\* everything the function computes for a photo of w x h pixels
TargetTransform(w, h, res) ==
    LET box == CropBox(w, h)
    IN  [box |-> box, cropped |-> CropSize(box),
         shape |-> ResizedShape(CropSize(box), res)]

NoTransform ==
    [box |-> [left |-> 0, upper |-> 0, right |-> 0, lower |-> 0],
     cropped |-> [w |-> 0, h |-> 0], shape |-> [h |-> 0, w |-> 0]]

CropIdle == [w |-> 0, h |-> 0, res |-> 0, called |-> FALSE, out |-> NoTransform]

InitCrop ==
    /\ crop \in {[w |-> w, h |-> h, res |-> r, called |-> FALSE, out |-> NoTransform] :
                    w \in 1..MaxDim, h \in 1..MaxDim, r \in 1..MaxCropRes}

GetTargetTransformedImg ==
    /\ ~crop.called
    /\ crop' = [crop EXCEPT !.called = TRUE,
                            !.out = TargetTransform(crop.w, crop.h, crop.res)]

(***************************************************************************)
(* The render mapping of generate_image and make_video.  A network output  *)
(* x = k/XDen is the integer k; (x + 1) * (255 / 2) is kept exactly, in    *)
(* units of 1/(2 * XDen).                                                  *)
(***************************************************************************)
PixelMax == 255

Unit == 2 * XDen

\* (img + 1) * (255 / 2)
Affine(k) == (k + XDen) * PixelMax

NoClamp(y) == y

\* .clamp(0, 255)
Clamp(y) == Max(0, Min(y, PixelMax * Unit))

\* .to(torch.uint8): truncation toward zero where the value fits 8 bits; the
\* conversion of a float outside that range is undefined, any byte may result
ToUint8(y) ==
    IF y > -Unit /\ y < (PixelMax + 1) * Unit
    THEN {IF y >= 0 THEN y \div Unit ELSE 0}
    ELSE 0..PixelMax

\* generate_image: the bytes a network output value can become
StillPixels(k) == ToUint8(Clamp(Affine(k)))

\* make_video, the original network's panel
UnblendedPixels(k) == ToUint8(Clamp(Affine(k)))

\* make_video, the blended network's panel
SynthPixels(k) == ToUint8(Clamp(Affine(k)))

RenderIdle == [x |-> 0, site |-> "none", pixel |-> 0]

InitRender ==
    /\ render \in {[x |-> k, site |-> "none", pixel |-> 0] : k \in -MaxMag..MaxMag}

RenderStill ==
    /\ render.site = "none"
    /\ \E p \in StillPixels(render.x) :
          render' = [render EXCEPT !.site = "generate_image", !.pixel = p]

RenderUnblended ==
    /\ render.site = "none"
    /\ \E p \in UnblendedPixels(render.x) :
          render' = [render EXCEPT !.site = "make_video_unblended", !.pixel = p]

RenderSynth ==
    /\ render.site = "none"
    /\ \E p \in SynthPixels(render.x) :
          render' = [render EXCEPT !.site = "make_video_synth", !.pixel = p]

(***************************************************************************)
(* Strings and paths.                                                      *)
(***************************************************************************)
Slash == <<"/">>

ProjectedWNpz == <<"p", "r", "o", "j", "e", "c", "t", "e", "d", "_", "w", ".", "n", "p", "z">>

SynthesizedSuffix == <<"_", "s", "y", "n", "t", "h", "e", "s", "i", "z", "e", "d">>

BlendedSuffix == <<"_", "b", "l", "e", "n", "d", "e", "d">>

ProjBlendedMp4 == <<"p", "r", "o", "j", "_", "b", "l", "e", "n", "d", "e", "d", ".", "m", "p", "4">>

ExtJpg == <<".", "j", "p", "g">>

ExtPng == <<".", "p", "n", "g">>

\* where the output directory is, as given with --outdir
OutDir == <<"o", "u", "t">>

\* the --input_image values of the model
InputImages ==
    { <<"d", "/", "a", ".", "j", "p", "g">>,
      <<"a", ".", "b", ".", "p", "n", "g">>,
      <<"p", "r", "o", "j", ".", "m", "p", "4">>,
      <<".", "j", "p", "g">> }

\* 0 when c does not occur in s: str.rfind, counted from 1
LastIndexOf(s, c) ==
    LET I == {i \in 1..Len(s) : s[i] = c}
    IN  IF I = {} THEN 0 ELSE CHOOSE i \in I : \A j \in I : j <= i

\* os.path.split(p)[-1]: what follows the last slash
Basename(p) == SubSeq(p, LastIndexOf(p, "/") + 1, Len(p))

\* os.path.splitext of a name without a slash: the extension starts at the last
\* dot, unless only dots come before it (a leading dot starts no extension)
SplitExt(b) ==
    LET d == LastIndexOf(b, ".")
    IN  IF d > 0 /\ (\E i \in 1..(d - 1) : b[i] # ".")
        THEN <<SubSeq(b, 1, d - 1), SubSeq(b, d, Len(b))>>
        ELSE <<b, <<>>>>

\* f"{outdir}/{rest}"
InOutDir(rest) == OutDir \o Slash \o rest

LatentsPath == InOutDir(ProjectedWNpz)

SynthesizedPath(name, ext) == InOutDir(name \o SynthesizedSuffix \o ext)

BlendedPathSameSuffix(name, ext) == InOutDir(name \o SynthesizedSuffix \o ext)

BlendedPath(name, ext) == InOutDir(name \o BlendedSuffix \o ext)

VideoPath == InOutDir(ProjBlendedMp4)

\* PIL's Image.save picks the format by the extension of the file name it is
\* given and raises, before the file is opened, when none is registered for it
RegisteredExtensions == {ExtJpg, ExtPng}

CanSaveImage(path) == SplitExt(Basename(path))[2] \in RegisteredExtensions

(***************************************************************************)
(* Networks, collaborator calls and images.                                *)
(***************************************************************************)
NoNet == [id |-> "none", img_resolution |-> 0, blend |-> <<>>]

\* legacy.load_network_pkl(f)["G_ema"]: the network stored behind a pickle name
LoadedNet(pkl, res) == [id |-> pkl, img_resolution |-> res, blend |-> <<>>]

\* stylegan_blending.get_blended_model: a network made of the two it is given; its
\* declared resolution is that of the first
BlendedNet(call) ==
    [id |-> "blended", img_resolution |-> call.G1.img_resolution, blend |-> <<call>>]

BlendWidthAsGiven(blend_width) == blend_width

\* blend_width = None, whatever the caller passed
BlendWidthPassed(blend_width) == None

BlendLevel == 0

\* f"b{resolution}"
BlendTag(resolution) == <<"b", resolution>>

\* the get_blended_model call of blend_model and of blend_model_simple
GetBlendedModelCall(n1, n2, resolution, network_size, blend_width, verbose) ==
    [fn |-> "get_blended_model", G1 |-> n1, G2 |-> n2,
     resolution |-> BlendTag(resolution), level |-> BlendLevel,
     blend_width |-> BlendWidthPassed(blend_width),
     network_size |-> network_size, verbose |-> verbose]

LoadCall(pkl) == [fn |-> "load_network_pkl", pkl |-> pkl]

\* blend_model: the collaborator calls it makes, in order
BlendModelCalls(pkl1, pkl2, resolution, network_size, blend_width, verbose) ==
    <<LoadCall(pkl1), LoadCall(pkl2),
      GetBlendedModelCall(LoadedNet(pkl1, g1res), LoadedNet(pkl2, g1res),
                          resolution, network_size, blend_width, verbose)>>

\* blend_model_simple: the networks are given, nothing is loaded
BlendModelSimpleCalls(n1, n2, resolution, network_size, blend_width, verbose) ==
    <<GetBlendedModelCall(n1, n2, resolution, network_size, blend_width, verbose)>>

NumSteps == 500

Device == "cuda"

\* target_uint8.transpose([2, 0, 1]) as a tensor on the device
TargetTorch(img) == [chw |-> img, device |-> Device]

ProjectCall(G, img) ==
    [fn |-> "project", G |-> G, target |-> TargetTorch(img),
     num_steps |-> NumSteps, device |-> Device, verbose |-> FALSE]

\* projector.project: one latent vector per optimisation step, each its own
Projected == [i \in 1..trajLen |-> i]

\* t.unsqueeze(0)
Unsqueeze0(t) == <<t>>

NoiseModeOption(opts) == opts.noise_mode

\* noise_mode="const" in every synthesis call
SynthNoiseMode(opts) == "const"

SynthesisCall(G, ws, opts) ==
    [fn |-> "synthesis", G |-> G, ws |-> ws, noise_mode |-> SynthNoiseMode(opts)]

NoImage == [h |-> 0, cols |-> <<>>]

\* the array made of a network's output for the single latent vector in ws
NetImage(G, ws) ==
    [h |-> G.img_resolution,
     cols |-> [c \in 1..G.img_resolution |-> [src |-> G.id, w |-> ws[1]]]]

\* the photo behind --input_image
PhotoSize == [w |-> MaxDim, h |-> MaxDim - 1]

\* get_target_transformed_img(input_image, res) as main and project_image use it
TargetImage(res) ==
    LET shape == TargetTransform(PhotoSize.w, PhotoSize.h, res).shape
    IN  [h |-> shape.h, cols |-> [c \in 1..shape.w |-> [src |-> "target", w |-> 0]]]

FirstLatent(w_plus) == w_plus[1]

\* w_plus[-1]
StillLatent(w_plus) == w_plus[Len(w_plus)]

LoopLatentLast(w_plus, i) == w_plus[Len(w_plus)]

\* the i-th value of "for projected_w in w_plus"
LoopLatent(w_plus, i) == w_plus[i]

\* np.concatenate raises unless the arrays agree on every other axis
CanConcatenate(imgs) == \A i \in 1..Len(imgs) : imgs[i].h = imgs[1].h

\* np.concatenate(imgs, axis=1) of three arrays
Concatenate(imgs) ==
    [h |-> imgs[1].h, cols |-> imgs[1].cols \o imgs[2].cols \o imgs[3].cols]

FrameSwapped(target, unblended, synth) == Concatenate(<<unblended, target, synth>>)

\* the frame make_video appends
Frame(target, unblended, synth) == Concatenate(<<target, unblended, synth>>)

(***************************************************************************)
(* main, one invocation after the other.                                   *)
(***************************************************************************)
NoiseModes == {"const", "random", "none"}

TruncationPsis == {"1", "0.5"}

BlendWidths == {None, "0.3", "0.7"}

Options == [noise_mode : NoiseModes, truncation_psi : TruncationPsis]

\* the defaults of --noise-mode and --trunc
DefaultOptions == [noise_mode |-> "const", truncation_psi |-> "1"]

IdleRun ==
    [pc |-> "idle", failedAt |-> "none", opts |-> DefaultOptions,
     input_image_name |-> <<>>, ext |-> <<>>,
     G1 |-> NoNet, blended_model |-> NoNet, w_plus |-> <<>>,
     target_uint8 |-> NoImage, normal_img |-> NoImage, blended_img |-> NoImage,
     log |-> <<>>, written |-> <<>>, archive |-> [w |-> <<>>],
     video |-> "unopened", frames |-> <<>>]

MainOrderSavezLate ==
    <<"setup", "blend_model", "project_image", "generate_normal", "save_normal",
      "savez", "generate_blended", "save_blended", "target", "make_video", "done">>

\* the statements of main, in the order of the source
MainOrder ==
    <<"setup", "blend_model", "project_image", "savez", "generate_normal",
      "save_normal", "generate_blended", "save_blended", "target", "make_video",
      "done">>

After(stage) ==
    MainOrder[(CHOOSE i \in 1..Len(MainOrder) : MainOrder[i] = stage) + 1]

Ended(r) == runs[r].pc \in {"done", "aborted"}

\* an exception leaves main: nothing catches it
Abort(run, stage) == [run EXCEPT !.pc = "aborted", !.failedAt = stage]

Update(r, run) ==
    /\ runs' = [runs EXCEPT ![r] = run]
    /\ UNCHANGED <<cli, g1res, trajLen, invocations, blend, crop, render>>

\* the program is started with its command line
Start(r) ==
    /\ runs[r].pc = "idle"
    /\ r <= invocations
    /\ \A q \in Runs : q < r => Ended(q)
    /\ \E o \in Options :
          Update(r, [runs[r] EXCEPT !.pc = MainOrder[1], !.opts = o])

\* os.makedirs(outdir, exist_ok=True) and the split of the input's name
Setup(r) ==
    /\ runs[r].pc = "setup"
    /\ \E ok \in BOOLEAN :
          IF ok
          THEN LET ne == SplitExt(Basename(cli.input_image))
               IN  Update(r, [runs[r] EXCEPT !.pc = After("setup"),
                                             !.input_image_name = ne[1],
                                             !.ext = ne[2]])
          ELSE Update(r, Abort(runs[r], "setup"))

\* blended_model, G1 = blend_model(...): main passes no verbose, so it is False
BlendModel(r) ==
    /\ runs[r].pc = "blend_model"
    /\ LET calls == BlendModelCalls(cli.network_pkl1, cli.network_pkl2,
                                    cli.blend_layer, cli.network_size,
                                    cli.blend_width, FALSE)
       IN  \E made \in 1..Len(calls), ok \in BOOLEAN :
              /\ ok => made = Len(calls)
              /\ LET run == [runs[r] EXCEPT !.log = @ \o SubSeq(calls, 1, made)]
                 IN  IF ok
                     THEN Update(r, [run EXCEPT
                              !.pc = After("blend_model"),
                              !.G1 = calls[Len(calls)].G1,
                              !.blended_model = BlendedNet(calls[Len(calls)])])
                     ELSE Update(r, Abort(run, "blend_model"))

\* w_plus = project_image(input_image, G1, device)
ProjectImage(r) ==
    /\ runs[r].pc = "project_image"
    /\ \E outcome \in {"open_fails", "project_fails", "ok"} :
          LET G1 == runs[r].G1
              call == ProjectCall(G1, TargetImage(G1.img_resolution))
          IN  CASE outcome = "open_fails" ->
                     Update(r, Abort(runs[r], "project_image"))
                [] outcome = "project_fails" ->
                     Update(r, Abort([runs[r] EXCEPT !.log = Append(@, call)],
                                     "project_image"))
                [] outcome = "ok" ->
                     Update(r, [runs[r] EXCEPT !.pc = After("project_image"),
                                               !.log = Append(@, call),
                                               !.w_plus = Projected])

\* np.savez(f"{outdir}/projected_w.npz", w=w_plus.unsqueeze(0).cpu().numpy())
SaveLatents(r) ==
    /\ runs[r].pc = "savez"
    /\ \E outcome \in {"fails_before", "fails_partial", "ok"} :
          CASE outcome = "fails_before" ->
                 Update(r, Abort(runs[r], "savez"))
            [] outcome = "fails_partial" ->
                 Update(r, Abort([runs[r] EXCEPT !.written = Append(@, LatentsPath)],
                                 "savez"))
            [] outcome = "ok" ->
                 Update(r, [runs[r] EXCEPT
                        !.pc = After("savez"),
                        !.written = Append(@, LatentsPath),
                        !.archive = [w |-> Unsqueeze0(runs[r].w_plus)]])

\* generate_image(G, w_plus): the synthesis call and the image it returns
GenerateImage(run, G, stage) ==
    LET ws == Unsqueeze0(StillLatent(run.w_plus))
    IN  [failed |-> Abort([run EXCEPT !.log = Append(@, SynthesisCall(G, ws, run.opts))],
                          stage),
         log |-> Append(run.log, SynthesisCall(G, ws, run.opts)),
         img |-> NetImage(G, ws)]

\* normal_img_pil = generate_image(G1, w_plus)
GenerateNormal(r) ==
    /\ runs[r].pc = "generate_normal"
    /\ LET g == GenerateImage(runs[r], runs[r].G1, "generate_normal")
       IN  \E ok \in BOOLEAN :
              IF ok
              THEN Update(r, [runs[r] EXCEPT !.pc = After("generate_normal"),
                                             !.log = g.log, !.normal_img = g.img])
              ELSE Update(r, g.failed)

\* img.save(path): the outcomes of PIL's save
SaveImage(r, path, stage) ==
    \E outcome \in {"fails_before", "fails_partial", "ok"} :
        /\ ~CanSaveImage(path) => outcome = "fails_before"
        /\ CASE outcome = "fails_before" ->
                  Update(r, Abort(runs[r], stage))
             [] outcome = "fails_partial" ->
                  Update(r, Abort([runs[r] EXCEPT !.written = Append(@, path)], stage))
             [] outcome = "ok" ->
                  Update(r, [runs[r] EXCEPT !.pc = After(stage),
                                            !.written = Append(@, path)])

\* normal_img_pil.save(f"{outdir}/{input_image_name}_synthesized{ext}")
SaveNormal(r) ==
    /\ runs[r].pc = "save_normal"
    /\ SaveImage(r, SynthesizedPath(runs[r].input_image_name, runs[r].ext),
                 "save_normal")

\* blended_img_pil = generate_image(blended_model, w_plus)
GenerateBlended(r) ==
    /\ runs[r].pc = "generate_blended"
    /\ LET g == GenerateImage(runs[r], runs[r].blended_model, "generate_blended")
       IN  \E ok \in BOOLEAN :
              IF ok
              THEN Update(r, [runs[r] EXCEPT !.pc = After("generate_blended"),
                                             !.log = g.log, !.blended_img = g.img])
              ELSE Update(r, g.failed)

\* blended_img_pil.save(f"{outdir}/{input_image_name}_blended{ext}")
SaveBlended(r) ==
    /\ runs[r].pc = "save_blended"
    /\ SaveImage(r, BlendedPath(runs[r].input_image_name, runs[r].ext),
                 "save_blended")

\* target_uint8 = get_target_transformed_img(input_image, G1.img_resolution)
Target(r) ==
    /\ runs[r].pc = "target"
    /\ \E ok \in BOOLEAN :
          IF ok
          THEN Update(r, [runs[r] EXCEPT
                      !.pc = After("target"),
                      !.target_uint8 = TargetImage(runs[r].G1.img_resolution)])
          ELSE Update(r, Abort(runs[r], "target"))

(***************************************************************************)
(* make_video, as main calls it: the writer is opened, the loop body runs   *)
(* once per latent vector, the writer is closed.                           *)
(***************************************************************************)
\* video = imageio.get_writer(outfile, ...): the plugin may create the file now
\* or with the first frame
VideoOpen(r) ==
    /\ runs[r].pc = "make_video"
    /\ runs[r].video = "unopened"
    /\ \E outcome \in {"fails", "ok_file_made", "ok"} :
          CASE outcome = "fails" ->
                 Update(r, Abort(runs[r], "make_video"))
            [] outcome = "ok_file_made" ->
                 Update(r, [runs[r] EXCEPT !.video = "open",
                                           !.written = Append(@, VideoPath)])
            [] outcome = "ok" ->
                 Update(r, [runs[r] EXCEPT !.video = "open"])

\* one pass of the loop body for projected_w
VideoFrame(r) ==
    /\ runs[r].pc = "make_video"
    /\ runs[r].video = "open"
    /\ Len(runs[r].frames) < Len(runs[r].w_plus)
    /\ LET run == runs[r]
           ws == Unsqueeze0(LoopLatent(run.w_plus, Len(run.frames) + 1))
           call1 == SynthesisCall(run.G1, ws, run.opts)
           call2 == SynthesisCall(run.blended_model, ws, run.opts)
           unblended_image == NetImage(run.G1, ws)
           synth_image == NetImage(run.blended_model, ws)
           panels == <<run.target_uint8, unblended_image, synth_image>>
       IN  \E outcome \in {"unblended_fails", "synth_fails", "append_fails", "ok"} :
              /\ ~CanConcatenate(panels) => outcome # "ok"
              /\ CASE outcome = "unblended_fails" ->
                        Update(r, Abort([run EXCEPT !.log = Append(@, call1)],
                                        "make_video"))
                   [] outcome = "synth_fails" ->
                        Update(r, Abort([run EXCEPT !.log = @ \o <<call1, call2>>],
                                        "make_video"))
                   [] outcome = "append_fails" ->
                        Update(r, Abort([run EXCEPT !.log = @ \o <<call1, call2>>],
                                        "make_video"))
                   [] outcome = "ok" ->
                        Update(r, [run EXCEPT
                               !.log = @ \o <<call1, call2>>,
                               !.frames = Append(@, Frame(run.target_uint8,
                                                          unblended_image, synth_image)),
                               !.written = IF VideoPath \in Range(@) THEN @
                                           ELSE Append(@, VideoPath)])

\* video.close(), reached when the loop has run out; the writer counts as closed
\* whether or not the flush raises
VideoClose(r) ==
    /\ runs[r].pc = "make_video"
    /\ runs[r].video = "open"
    /\ Len(runs[r].frames) = Len(runs[r].w_plus)
    /\ \E ok \in BOOLEAN :
          IF ok
          THEN Update(r, [runs[r] EXCEPT !.video = "closed",
                                         !.pc = After("make_video")])
          ELSE Update(r, Abort([runs[r] EXCEPT !.video = "closed"], "make_video"))

(***************************************************************************)
(* blend_model and blend_model_simple called twice with arguments that     *)
(* differ in blend_width only.                                             *)
(***************************************************************************)
BlendIdle ==
    [resolution |-> 0, network_size |-> 0, verbose |-> FALSE,
     widths |-> <<None, None>>, fn |-> "none", calls |-> <<<<>>, <<>>>>]

InitBlend ==
    blend \in {[resolution |-> res, network_size |-> size, verbose |-> v,
                widths |-> <<w1, w2>>, fn |-> "none", calls |-> <<<<>>, <<>>>>] :
                  res \in {16, 32}, size \in {256, 512}, v \in BOOLEAN,
                  w1 \in BlendWidths, w2 \in BlendWidths}

CallBlendModel ==
    /\ blend.fn = "none"
    /\ blend' = [blend EXCEPT
          !.fn = "blend_model",
          !.calls = [i \in 1..2 |->
                       BlendModelCalls("pkl1", "pkl2", blend.resolution,
                                       blend.network_size, blend.widths[i],
                                       blend.verbose)]]

CallBlendModelSimple ==
    /\ blend.fn = "none"
    /\ blend' = [blend EXCEPT
          !.fn = "blend_model_simple",
          !.calls = [i \in 1..2 |->
                       BlendModelSimpleCalls(LoadedNet("pkl1", g1res),
                                             LoadedNet("pkl2", g1res),
                                             blend.resolution, blend.network_size,
                                             blend.widths[i], blend.verbose)]]

(***************************************************************************)
(* Specifications.                                                         *)
(***************************************************************************)
CommandLines ==
    [network_pkl1 : {"pkl1"}, network_pkl2 : {"pkl2"}, input_image : InputImages,
     network_size : {512}, blend_layer : {16, 32}, blend_width : BlendWidths]

IdleCommandLine ==
    [network_pkl1 |-> "pkl1", network_pkl2 |-> "pkl2",
     input_image |-> <<"d", "/", "a", ".", "j", "p", "g">>,
     network_size |-> 512, blend_layer |-> 32, blend_width |-> None]

\* one invocation of the program
Init ==
    /\ cli \in CommandLines
    /\ g1res \in 1..MaxRes
    /\ trajLen \in 1..MaxTraj
    /\ invocations = 1
    /\ runs = [r \in Runs |-> IdleRun]
    /\ blend = BlendIdle
    /\ crop = CropIdle
    /\ render = RenderIdle

Main(r) ==
    \/ Start(r)
    \/ Setup(r)
    \/ BlendModel(r)
    \/ ProjectImage(r)
    \/ SaveLatents(r)
    \/ GenerateNormal(r)
    \/ SaveNormal(r)
    \/ GenerateBlended(r)
    \/ SaveBlended(r)
    \/ Target(r)
    \/ VideoOpen(r)
    \/ VideoFrame(r)
    \/ VideoClose(r)

Next == \E r \in Runs : Main(r)

Spec == Init /\ [][Next]_vars

\* two invocations with the same command line but for --noise-mode and --trunc
InitPair ==
    /\ cli \in {c \in CommandLines : c.input_image = IdleCommandLine.input_image}
    /\ g1res = MaxRes
    /\ trajLen = MaxTraj
    /\ invocations = 2
    /\ runs = [r \in Runs |-> IdleRun]
    /\ blend = BlendIdle
    /\ crop = CropIdle
    /\ render = RenderIdle

SpecPair == InitPair /\ [][Next]_vars

InitBlendCalls ==
    /\ InitBlend
    /\ cli = IdleCommandLine
    /\ g1res \in 1..MaxRes
    /\ trajLen = 1
    /\ invocations = 0
    /\ runs = [r \in Runs |-> IdleRun]
    /\ crop = CropIdle
    /\ render = RenderIdle

NextBlend ==
    /\ CallBlendModel \/ CallBlendModelSimple
    /\ UNCHANGED <<cli, g1res, trajLen, invocations, runs, crop, render>>

SpecBlend == InitBlendCalls /\ [][NextBlend]_vars

InitCropCalls ==
    /\ InitCrop
    /\ cli = IdleCommandLine
    /\ g1res = 1
    /\ trajLen = 1
    /\ invocations = 0
    /\ runs = [r \in Runs |-> IdleRun]
    /\ blend = BlendIdle
    /\ render = RenderIdle

NextCrop ==
    /\ GetTargetTransformedImg
    /\ UNCHANGED <<cli, g1res, trajLen, invocations, runs, blend, render>>

SpecCrop == InitCropCalls /\ [][NextCrop]_vars

InitRenderCalls ==
    /\ InitRender
    /\ cli = IdleCommandLine
    /\ g1res = 1
    /\ trajLen = 1
    /\ invocations = 0
    /\ runs = [r \in Runs |-> IdleRun]
    /\ blend = BlendIdle
    /\ crop = CropIdle

NextRender ==
    /\ RenderStill \/ RenderUnblended \/ RenderSynth
    /\ UNCHANGED <<cli, g1res, trajLen, invocations, runs, blend, crop>>

SpecRender == InitRenderCalls /\ [][NextRender]_vars

(***************************************************************************)
(* The claims.                                                             *)
(***************************************************************************)
LastCall(calls) == calls[Len(calls)]

SynthesisCalls(log) == SelectSeq(log, LAMBDA c : c.fn = "synthesis")

DirEntries(run) == {Basename(p) : p \in Range(run.written)}

\* C1: whatever blend_width blend_model or blend_model_simple is called with, the
\* get_blended_model call it makes carries blend_width None, level 0 and the tag
\* "b<resolution>", and two calls that differ in blend_width alone make the same
\* collaborator calls.
C1_BlendWidthOverridden ==
    blend.fn # "none" =>
        /\ \A i \in 1..2 :
              LET c == LastCall(blend.calls[i])
              IN  /\ c.fn = "get_blended_model"
                  /\ c.blend_width = None
                  /\ c.level = 0
                  /\ c.resolution = <<"b", blend.resolution>>
        /\ blend.calls[1] = blend.calls[2]

C1_Witness ==
    /\ blend.fn = "blend_model_simple"
    /\ blend.widths = <<"0.3", "0.7">>

\* C2: for a photo of w x h pixels the crop is a square of side min(w, h), inside
\* the photo, with margins that differ by at most one pixel on each axis, and the
\* returned array is res x res.
C2_CenteredSquareCrop ==
    crop.called =>
        LET s == Min(crop.w, crop.h)
            box == crop.out.box
        IN  /\ crop.out.cropped = [w |-> s, h |-> s]
            /\ 0 <= box.left /\ box.right <= crop.w
            /\ 0 <= box.upper /\ box.lower <= crop.h
            /\ (crop.w - box.right) - box.left \in {0, 1}
            /\ (crop.h - box.lower) - box.upper \in {0, 1}
            /\ crop.out.shape = [h |-> crop.res, w |-> crop.res]

C2_Witness ==
    /\ crop.called
    /\ crop.w > crop.h
    /\ (crop.w - crop.h) % 2 = 1

\* C3: once make_video has opened the writer, the writer is closed when the run
\* ends, be it normally or by a failure inside the loop.
C3_VideoClosedOnEveryExit ==
    \A r \in Runs :
        (Ended(r) /\ runs[r].video # "unopened") => runs[r].video = "closed"

\* C4: a run that ends without a failure leaves exactly four entries in the
\* output directory: projected_w.npz, <name>_synthesized<ext>, <name>_blended<ext>
\* and proj_blended.mp4, and the archive's array w has leading dimension 1.
C4_FourOutputs ==
    \A r \in Runs :
        runs[r].pc = "done" =>
            LET ne == SplitExt(Basename(cli.input_image))
            IN  /\ DirEntries(runs[r]) =
                      {ProjectedWNpz, ne[1] \o SynthesizedSuffix \o ne[2],
                       ne[1] \o BlendedSuffix \o ne[2], ProjBlendedMp4}
                /\ Cardinality(DirEntries(runs[r])) = 4
                /\ \A p \in Range(runs[r].written) : p = OutDir \o Slash \o Basename(p)
                /\ Len(runs[r].archive.w) = 1

C4_Witness ==
    /\ runs[1].pc = "done"
    /\ cli.input_image = <<"a", ".", "b", ".", "p", "n", "g">>

\* C5: the i-th frame written is built from the i-th latent vector, rendered by
\* the original and by the blended network; never more frames than latent vectors,
\* and the writer is closed only when there is one frame per latent vector.
C5_OneFramePerLatentInOrder ==
    \A r \in Runs :
        LET run == runs[r]
        IN  /\ Len(run.frames) <= Len(run.w_plus)
            /\ \A i \in 1..Len(run.frames) :
                  LET rendered == {c \in Range(run.frames[i].cols) : c.src # "target"}
                  IN  /\ {c.w : c \in rendered} = {run.w_plus[i]}
                      /\ {c.src : c \in rendered} = {run.G1.id, run.blended_model.id}
            /\ run.video = "closed" => Len(run.frames) = Len(run.w_plus)
            /\ run.pc = "done" => Len(run.frames) = trajLen

C5_Witness ==
    /\ runs[1].pc = "done"
    /\ Len(runs[1].frames) >= 2

\* C6: the two still images are rendered at the last latent vector of the
\* trajectory the projector returned: the first synthesis call of a run is on G1,
\* the second on the blended network, both on w_plus[-1] of the same w_plus.
C6_StillsAtLastLatent ==
    \A r \in Runs :
        LET run == runs[r]
            calls == SynthesisCalls(run.log)
            last == <<Projected[trajLen]>>
        IN  /\ run.normal_img # NoImage =>
                  /\ run.w_plus = Projected
                  /\ calls[1].G = run.G1 /\ calls[1].G.id = cli.network_pkl1
                  /\ calls[1].ws = last
                  /\ \A c \in Range(run.normal_img.cols) : c.w = Projected[trajLen]
            /\ run.blended_img # NoImage =>
                  /\ run.w_plus = Projected
                  /\ calls[2].G = run.blended_model /\ calls[2].G.id = "blended"
                  /\ calls[2].ws = last
                  /\ \A c \in Range(run.blended_img.cols) : c.w = Projected[trajLen]

C6_Witness ==
    /\ runs[1].blended_img # NoImage
    /\ trajLen >= 2

\* C7: the byte a network output x becomes is in 0..255 and saturates instead of
\* wrapping: 255 for x >= 1, 0 for x <= -1, and in between the integer part of
\* (x + 1) * 127.5 (stated to within one grey level, which leaves room for the
\* rounding of 32-bit floats); at each of the three places that render.
C7_PixelSaturates ==
    render.site # "none" =>
        /\ render.pixel \in 0..255
        /\ render.x >= XDen => render.pixel = 255
        /\ render.x <= -XDen => render.pixel = 0
        /\ (render.x > -XDen /\ render.x < XDen) =>
              LET exact == (render.x + XDen) * 255
              IN  /\ render.pixel * 2 * XDen <= exact + 2 * XDen
                  /\ render.pixel * 2 * XDen >= exact - 2 * XDen

C7_Witness ==
    /\ render.site = "make_video_synth"
    /\ render.x > 2 * XDen

\* C8: every frame is [target | original network | blended network], each panel
\* as wide as the target, which is as wide as G1.img_resolution.
C8_ThreePanels ==
    \A r \in Runs :
        LET run == runs[r]
            W == Len(run.target_uint8.cols)
        IN  \A i \in 1..Len(run.frames) :
                LET cols == run.frames[i].cols
                IN  /\ W = run.G1.img_resolution
                    /\ Len(cols) = 3 * W
                    /\ \A c \in 1..W :
                          /\ cols[c].src = "target"
                          /\ cols[W + c].src = run.G1.id
                          /\ cols[2 * W + c].src = run.blended_model.id

C8_Witness ==
    /\ Len(runs[1].frames) >= 1
    /\ g1res >= 2

\* C9: at every point of a run the files written so far are, in order, a prefix
\* of [projected_w.npz, <name>_synthesized<ext>, <name>_blended<ext>,
\* proj_blended.mp4]; a run that failed while loading, blending or projecting has
\* written nothing.
C9_OutputsArePrefix ==
    \A r \in Runs :
        LET run == runs[r]
        IN  /\ IsPrefix(run.written,
                        <<LatentsPath,
                          SynthesizedPath(run.input_image_name, run.ext),
                          BlendedPath(run.input_image_name, run.ext),
                          VideoPath>>)
            /\ run.failedAt \in {"setup", "blend_model", "project_image"} =>
                  run.written = <<>>
            /\ run.pc = "aborted" <=> run.failedAt # "none"

C9_Witness ==
    /\ runs[1].pc = "aborted"
    /\ runs[1].failedAt = "make_video"
    /\ Len(runs[1].written) = 3

\* C10: two invocations that differ in --noise-mode and --trunc alone make the
\* same collaborator calls with the same arguments as far as both get, every
\* synthesis call with noise mode "const" and the projector with 500 steps, and
\* when both finish they have written the same outputs.
C10_OptionsIgnored ==
    /\ \A r \in Runs : \A i \in 1..Len(runs[r].log) :
          LET c == runs[r].log[i]
          IN  /\ c.fn = "synthesis" => c.noise_mode = "const"
              /\ c.fn = "project" => c.num_steps = 500
    /\ \A i \in 1..Min(Len(runs[1].log), Len(runs[2].log)) :
          runs[1].log[i] = runs[2].log[i]
    /\ (runs[1].pc = "done" /\ runs[2].pc = "done") =>
          /\ runs[1].log = runs[2].log
          /\ runs[1].written = runs[2].written
          /\ runs[1].archive = runs[2].archive
          /\ runs[1].frames = runs[2].frames

C10_Witness ==
    /\ runs[1].pc = "done"
    /\ runs[2].pc = "done"
    /\ runs[1].opts = [noise_mode |-> "const", truncation_psi |-> "1"]
    /\ runs[2].opts = [noise_mode |-> "random", truncation_psi |-> "0.5"]

====
